---- MODULE Spec2Model ----
(***************************************************************************)
(* A model of virtual_assistant_HW3.py: the validated field types, the    *)
(* contact Record, the AddressBook and the command loop of main().        *)
(*                                                                         *)
(* Python strings are TLA+ strings; a character is a string of length 1,  *)
(* read with SubSeq.  An operation that can raise returns a record whose   *)
(* field exc names the exception (NoExc when it returns normally).         *)
(* The inputs are ASCII strings whose only whitespace is the space.        *)
(***************************************************************************)
EXTENDS Integers, Sequences, FiniteSets

VARIABLES
    records,     \* AddressBook.records: the dict, as its entries in insertion order
    pc,          \* main(): "prompt" at input(), "done" after break, "crashed" on an uncaught exception
    user_input,  \* main(): the line read last
    out,         \* what the last command printed, or what the last library call returned or raised
    call         \* the library call made last: its operation, its string arguments, and
                 \* the date datetime.today() gave it (None when it did not ask)

vars == <<records, pc, user_input, out, call>>

-----------------------------------------------------------------------------
(* Bounds of the model *)

\* the longest argument list typed after a command
MaxArgs == 3
\* the longest phone list a Record is grown to by library calls
MaxPhones == 2

-----------------------------------------------------------------------------
(* Strings *)

Ch(s, i) == SubSeq(s, i, i)

AsciiDigits == {"0", "1", "2", "3", "4", "5", "6", "7", "8", "9"}
NonZeroDigits == AsciiDigits \ {"0"}

\* str.isdigit(): non-empty and every character a digit
isdigit(s) == Len(s) > 0 /\ \A i \in 1..Len(s) : Ch(s, i) \in AsciiDigits

DigitVal(c) ==
    CASE c = "0" -> 0 [] c = "1" -> 1 [] c = "2" -> 2 [] c = "3" -> 3 [] c = "4" -> 4
      [] c = "5" -> 5 [] c = "6" -> 6 [] c = "7" -> 7 [] c = "8" -> 8 [] c = "9" -> 9
      [] OTHER -> 0

\* int(s) for a string of digits with optional leading spaces, as strptime reads a field
RECURSIVE ToInt(_)
ToInt(s) ==
    IF Len(s) = 0 THEN 0
    ELSE IF Ch(s, Len(s)) = " " THEN ToInt(SubSeq(s, 1, Len(s) - 1))
    ELSE 10 * ToInt(SubSeq(s, 1, Len(s) - 1)) + DigitVal(Ch(s, Len(s)))

\* str.lower() on one character
LowerCh(c) ==
    CASE c = "A" -> "a" [] c = "D" -> "d" [] c = "E" -> "e" [] c = "H" -> "h"
      [] c = "L" -> "l" [] c = "O" -> "o" [] c = "X" -> "x" [] c = "I" -> "i"
      [] c = "T" -> "t" [] OTHER -> c

RECURSIVE lower(_)
lower(s) == IF Len(s) = 0 THEN "" ELSE LowerCh(Ch(s, 1)) \o lower(SubSeq(s, 2, Len(s)))

\* str.split(): the maximal runs of non-whitespace characters, in order
RECURSIVE SplitFrom(_, _, _)
SplitFrom(s, i, word) ==
    IF i > Len(s) THEN (IF word = "" THEN <<>> ELSE <<word>>)
    ELSE IF Ch(s, i) = " "
         THEN (IF word = "" THEN <<>> ELSE <<word>>) \o SplitFrom(s, i + 1, "")
         ELSE SplitFrom(s, i + 1, word \o Ch(s, i))

split(s) == SplitFrom(s, 1, "")

-----------------------------------------------------------------------------
(* Exceptions *)

NoExc == "NoExc"
None == <<>>

-----------------------------------------------------------------------------
(* datetime.strptime(value, '%d.%m.%Y') *)

IsLeap(y) == (y % 4 = 0 /\ y % 100 # 0) \/ y % 400 = 0

DaysInMonth(y, m) ==
    CASE m \in {1, 3, 5, 7, 8, 10, 12} -> 31
      [] m \in {4, 6, 9, 11} -> 30
      [] OTHER -> IF IsLeap(y) THEN 29 ELSE 28

DotPositions(s) == {i \in 1..Len(s) : Ch(s, i) = "."}

\* %d: 3[0-1] | [1-2]\d | 0[1-9] | [1-9] | " "[1-9]
MatchesDay(f) ==
    \/ Len(f) = 2 /\ Ch(f, 1) = "3" /\ Ch(f, 2) \in {"0", "1"}
    \/ Len(f) = 2 /\ Ch(f, 1) \in {"1", "2"} /\ Ch(f, 2) \in AsciiDigits
    \/ Len(f) = 2 /\ Ch(f, 1) = "0" /\ Ch(f, 2) \in NonZeroDigits
    \/ Len(f) = 1 /\ f \in NonZeroDigits
    \/ Len(f) = 2 /\ Ch(f, 1) = " " /\ Ch(f, 2) \in NonZeroDigits

\* %m: 1[0-2] | 0[1-9] | [1-9]
MatchesMonth(f) ==
    \/ Len(f) = 2 /\ Ch(f, 1) = "1" /\ Ch(f, 2) \in {"0", "1", "2"}
    \/ Len(f) = 2 /\ Ch(f, 1) = "0" /\ Ch(f, 2) \in NonZeroDigits
    \/ Len(f) = 1 /\ f \in NonZeroDigits

\* %Y: \d\d\d\d
MatchesYear(f) == Len(f) = 4 /\ isdigit(f)

\* the three fields of a string that holds exactly two dots
DateFields(s) ==
    LET p1 == CHOOSE i \in DotPositions(s) : \A j \in DotPositions(s) : i <= j
        p2 == CHOOSE i \in DotPositions(s) : \A j \in DotPositions(s) : i >= j
    IN  [d |-> SubSeq(s, 1, p1 - 1), m |-> SubSeq(s, p1 + 1, p2 - 1),
         y |-> SubSeq(s, p2 + 1, Len(s))]

\* strptime returns (TRUE) or raises ValueError (FALSE): the whole string must match
\* the format, and the fields must name a date the calendar has (year >= 1)
strptime_ok(s) ==
    /\ Cardinality(DotPositions(s)) = 2
    /\ LET f == DateFields(s) IN
         /\ MatchesDay(f.d) /\ MatchesMonth(f.m) /\ MatchesYear(f.y)
         /\ ToInt(f.y) >= 1
         /\ ToInt(f.d) <= DaysInMonth(ToInt(f.y), ToInt(f.m))

-----------------------------------------------------------------------------
(* Field types *)

is_valid_birthday(value) == strptime_ok(value)

\* Birthday(value): the value is checked only when it is truthy (non-empty)
Birthday(value) ==
    [exc |-> IF value # "" /\ ~is_valid_birthday(value) THEN "ValueError" ELSE NoExc,
     value |-> value]

is_valid_phone(value) == Len(value) = 10 /\ isdigit(value)

Phone(value) ==
    [exc |-> IF ~is_valid_phone(value) THEN "ValueError" ELSE NoExc, value |-> value]

-----------------------------------------------------------------------------
(* Record: id is the object's identity, phones the values of its Phone     *)
(* objects in list order, birthday None or <<value of its Birthday>>.      *)

Record(name, id) == [id |-> id, name |-> name, phones |-> <<>>, birthday |-> None]

\* the index of the first phone of the list whose value is phone, 0 if there is none
FirstPhone(rec, phone) ==
    IF \E i \in 1..Len(rec.phones) : rec.phones[i] = phone
    THEN CHOOSE i \in 1..Len(rec.phones) :
            /\ rec.phones[i] = phone
            /\ \A j \in 1..(i - 1) : rec.phones[j] # phone
    ELSE 0

NotFoundMsg(rec, phone) ==
    "Phone number '" \o phone \o "' not found in record '" \o rec.name \o "'"

Record_add_phone(rec, phone) ==
    IF Phone(phone).exc # NoExc
    THEN [exc |-> "ValueError", msg |-> "Invalid phone number format", rec |-> rec]
    ELSE [exc |-> NoExc, msg |-> "", rec |-> [rec EXCEPT !.phones = Append(@, Phone(phone).value)]]

Record_remove_phone(rec, phone) ==
    LET i == FirstPhone(rec, phone) IN
    IF i = 0
    THEN [exc |-> "ValueError", msg |-> NotFoundMsg(rec, phone), rec |-> rec]
    ELSE [exc |-> NoExc, msg |-> "",
          rec |-> [rec EXCEPT !.phones = SubSeq(@, 1, i - 1) \o SubSeq(@, i + 1, Len(@))]]

\* Record.edit_phone that finds the phone and leaves its value as it was
Record_edit_phone_NoAssign(rec, old_phone, new_phone) ==
    LET i == FirstPhone(rec, old_phone) IN
    IF i = 0
    THEN [exc |-> "ValueError", msg |-> NotFoundMsg(rec, old_phone), rec |-> rec]
    ELSE [exc |-> NoExc, msg |-> "", rec |-> rec]

Record_edit_phone(rec, old_phone, new_phone) ==
    LET i == FirstPhone(rec, old_phone) IN
    IF i = 0
    THEN [exc |-> "ValueError", msg |-> NotFoundMsg(rec, old_phone), rec |-> rec]
    ELSE [exc |-> NoExc, msg |-> "", rec |-> [rec EXCEPT !.phones[i] = new_phone]]

Record_find_phone(rec, phone) ==
    LET i == FirstPhone(rec, phone) IN
    IF i = 0
    THEN [exc |-> "ValueError", msg |-> NotFoundMsg(rec, phone), rec |-> rec]
    ELSE [exc |-> NoExc, msg |-> rec.phones[i], rec |-> rec]

\* Record.add_birthday without its test for a birthday already set
Record_add_birthday_Overwrite(rec, birthday) ==
    IF Birthday(birthday).exc # NoExc
    THEN [exc |-> "ValueError", msg |-> "Invalid birthday format", rec |-> rec]
    ELSE [exc |-> NoExc, msg |-> "", rec |-> [rec EXCEPT !.birthday = <<Birthday(birthday).value>>]]

\* a Birthday object is always truthy, so the test is "birthday is not None"
Record_add_birthday(rec, birthday) ==
    IF rec.birthday # None
    THEN [exc |-> "ValueError", msg |-> "Birthday already exists for this contact", rec |-> rec]
    ELSE IF Birthday(birthday).exc # NoExc
    THEN [exc |-> "ValueError", msg |-> "Invalid birthday format", rec |-> rec]
    ELSE [exc |-> NoExc, msg |-> "", rec |-> [rec EXCEPT !.birthday = <<Birthday(birthday).value>>]]

-----------------------------------------------------------------------------
(* AddressBook *)

Keys(recs) == {recs[i].key : i \in 1..Len(recs)}

IndexOf(recs, name) == CHOOSE i \in 1..Len(recs) : recs[i].key = name

\* an identity no Record of the book has
FreshId(recs) ==
    CHOOSE n \in 1..(Len(recs) + 1) :
        /\ \A i \in 1..Len(recs) : recs[i].rec.id # n
        /\ \A m \in 1..(n - 1) : \E i \in 1..Len(recs) : recs[i].rec.id = m

\* self.records[record.name.value] = record: a present key keeps its place
add_record(recs, record) ==
    IF record.name \in Keys(recs)
    THEN [recs EXCEPT ![IndexOf(recs, record.name)] = [key |-> record.name, rec |-> record]]
    ELSE Append(recs, [key |-> record.name, rec |-> record])

\* record = self.records[name], then a method of it that mutates the object in place
SetRecord(recs, name, record) == [recs EXCEPT ![IndexOf(recs, name)].rec = record]

delete(recs, name) ==
    IF name \in Keys(recs)
    THEN LET i == IndexOf(recs, name) IN
         [exc |-> NoExc, records |-> SubSeq(recs, 1, i - 1) \o SubSeq(recs, i + 1, Len(recs))]
    ELSE [exc |-> "KeyError", records |-> recs]

find(recs, name) ==
    IF name \in Keys(recs)
    THEN [exc |-> NoExc, rec |-> recs[IndexOf(recs, name)].rec]
    ELSE [exc |-> "KeyError", rec |-> Record(name, 0)]

AddressBook_add_birthday(recs, name, birthday) ==
    IF name \in Keys(recs)
    THEN LET r == Record_add_birthday(find(recs, name).rec, birthday) IN
         [exc |-> r.exc, msg |-> r.msg, records |-> SetRecord(recs, name, r.rec)]
    ELSE [exc |-> "KeyError", msg |-> "Record '" \o name \o "' not found", records |-> recs]

\* The loop of get_birthdays_per_week.  record.birthday.value is the string the
\* Birthday was built from, so birthday.replace(year=today.year) is str.replace
\* called with a keyword argument: it raises TypeError at the first record
\* that has a birthday, before any date is computed.
RECURSIVE BirthdaysLoop(_, _, _, _)
BirthdaysLoop(recs, i, day, birthdays_per_week) ==
    IF i > Len(recs) THEN [exc |-> NoExc, rows |-> birthdays_per_week]
    ELSE IF recs[i].rec.birthday # None
         THEN [exc |-> "TypeError", rows |-> <<>>]
         ELSE BirthdaysLoop(recs, i + 1, day, birthdays_per_week)

get_birthdays_per_week(recs, day) == BirthdaysLoop(recs, 1, day, <<>>)

\* Record.__str__
RECURSIVE JoinPhones(_)
JoinPhones(phones) ==
    IF Len(phones) = 0 THEN ""
    ELSE IF Len(phones) = 1 THEN phones[1]
    ELSE phones[1] \o "; " \o JoinPhones(Tail(phones))

Record_str(rec) == "Contact name: " \o rec.name \o ", phones: " \o JoinPhones(rec.phones)

-----------------------------------------------------------------------------
(* The command handlers.  A handler's body returns exc, the value returned *)
(* (ret) and the dict as the body left it; input_error is the decorator.   *)

input_error(r) ==
    CASE r.exc = "ValueError" ->
            [exc |-> NoExc, ret |-> "Give me name and phone please.", records |-> r.records]
      [] r.exc = "KeyError" ->
            [exc |-> NoExc, ret |-> "Contact not found", records |-> r.records]
      [] r.exc = "IndexError" ->
            [exc |-> NoExc, ret |-> "Invalid command. Please enter a valid command.",
             records |-> r.records]
      [] OTHER -> r

Raise(exc, recs) == [exc |-> exc, ret |-> "", records |-> recs]
Return(ret, recs) == [exc |-> NoExc, ret |-> ret, records |-> recs]

\* cmd, *args = user_input.split(); cmd = cmd.strip().lower()
parse_input(line) ==
    LET tokens == split(line) IN
    IF Len(tokens) = 0
    THEN [exc |-> "ValueError", cmd |-> "", args |-> <<>>]
    ELSE [exc |-> NoExc, cmd |-> lower(tokens[1]), args |-> Tail(tokens)]

\* add_contact without its test for a name already in the book
add_contact_body_NoDuplicateTest(args, recs) ==
    IF Len(args) # 2 THEN Raise("ValueError", recs)
    ELSE LET name == args[1]
             phone == args[2]
             r == Record_add_phone(Record(name, FreshId(recs)), phone)
         IN  IF r.exc # NoExc THEN Raise(r.exc, recs)
             ELSE Return("Contact added", add_record(recs, r.rec))

\* add_contact that puts the new Record in the book before it adds the phone
add_contact_body_RecordFirst(args, recs) ==
    IF Len(args) # 2 THEN Raise("ValueError", recs)
    ELSE LET name == args[1]
             phone == args[2]
         IN  IF name \in Keys(recs) THEN Raise("ValueError", recs)
             ELSE LET r == Record_add_phone(Record(name, FreshId(recs)), phone) IN
                  IF r.exc # NoExc
                  THEN Raise(r.exc, add_record(recs, Record(name, FreshId(recs))))
                  ELSE Return("Contact added", add_record(recs, r.rec))

add_contact_body(args, recs) ==
    IF Len(args) # 2 THEN Raise("ValueError", recs)
    ELSE LET name == args[1]
             phone == args[2]
         IN  IF name \in Keys(recs) THEN Raise("ValueError", recs)
             ELSE LET r == Record_add_phone(Record(name, FreshId(recs)), phone) IN
                  IF r.exc # NoExc THEN Raise(r.exc, recs)
                  ELSE Return("Contact added", add_record(recs, r.rec))

add_contact(args, recs) == input_error(add_contact_body(args, recs))

\* change_contact that adds the new phone to the list and keeps the old one
change_contact_body_AddPhone(args, recs) ==
    IF Len(args) # 2 THEN Raise("ValueError", recs)
    ELSE LET name == args[1]
             new_phone == args[2]
         IN  IF name \in Keys(recs)
             THEN LET r == Record_add_phone(find(recs, name).rec, new_phone) IN
                  IF r.exc # NoExc THEN Raise(r.exc, recs)
                  ELSE Return("Contact updated", SetRecord(recs, name, r.rec))
             ELSE Raise("KeyError", recs)

change_contact_body(args, recs) ==
    IF Len(args) # 2 THEN Raise("ValueError", recs)
    ELSE LET name == args[1]
             new_phone == args[2]
         IN  IF name \in Keys(recs)
             THEN LET record == find(recs, name).rec IN
                  IF Len(record.phones) = 0 THEN Raise("IndexError", recs)
                  ELSE LET r == Record_edit_phone(record, record.phones[1], new_phone) IN
                       IF r.exc # NoExc THEN Raise(r.exc, recs)
                       ELSE Return("Contact updated", SetRecord(recs, name, r.rec))
             ELSE Raise("KeyError", recs)

change_contact(args, recs) == input_error(change_contact_body(args, recs))

show_phone_body(args, recs) ==
    IF Len(args) = 0 THEN Raise("IndexError", recs)
    ELSE LET name == args[1] IN
         IF name \in Keys(recs)
         THEN LET record == find(recs, name).rec IN
              IF Len(record.phones) = 0 THEN Raise("IndexError", recs)
              ELSE Return(record.phones[1], recs)
         ELSE Raise("KeyError", recs)

show_phone(args, recs) == input_error(show_phone_body(args, recs))

\* the argument is what the caller passes: an AddressBook or, from main, its dict
show_all(address_book) ==
    IF address_book.type # "AddressBook"
    THEN [exc |-> "AttributeError", ret |-> "", printed |-> <<>>]
    ELSE IF Len(address_book.records) = 0
    THEN [exc |-> NoExc, ret |-> "There are no contacts.", printed |-> <<>>]
    ELSE [exc |-> NoExc, ret |-> "None",
          printed |-> [i \in 1..Len(address_book.records) |->
                          Record_str(address_book.records[i].rec)]]

add_birthday_body(args, recs) ==
    IF Len(args) # 2 THEN Raise("ValueError", recs)
    ELSE LET name == args[1]
             birthday == args[2]
         IN  IF find(recs, name).exc = "KeyError"
             THEN Return("Contact '" \o name \o "' not found", recs)
             ELSE LET r == Record_add_birthday(find(recs, name).rec, birthday) IN
                  IF r.exc = "ValueError" THEN Return("Invalid birthday format", recs)
                  ELSE Return("Birthday added for " \o name, SetRecord(recs, name, r.rec))

add_birthday(args, recs) == input_error(add_birthday_body(args, recs))

show_birthday_body(args, recs) ==
    IF Len(args) = 0 THEN Raise("IndexError", recs)
    ELSE LET name == args[1] IN
         IF name \in Keys(recs)
         THEN LET record == find(recs, name).rec IN
              IF record.birthday # None
              THEN Return(name \o "'s birthday: " \o record.birthday[1], recs)
              ELSE Return("No birthday set for " \o name, recs)
         ELSE Raise("KeyError", recs)

show_birthday(args, recs) == input_error(show_birthday_body(args, recs))

\* AddressBook.get_birthdays_per_week() called on the class, with no instance
birthdays(recs) == [exc |-> "TypeError", rows |-> <<>>]

-----------------------------------------------------------------------------
(* The inputs *)

Names == {"Dave", "Bob"}

\* what is typed as the second argument of a command
ArgValues == {"1234567890", "0000000000", "123", "12.06.1990", "32.01.2000"}

ArgCommands == {"add", "change", "phone", "add-birthday", "show-birthday"}
OtherCommands == {"hello", "all", "birthdays", "close", "exit", "foo"}

\* " name value x x ..." cut to k arguments
RECURSIVE Extra(_)
Extra(k) == IF k <= 0 THEN "" ELSE " x" \o Extra(k - 1)

ArgText(name, value, k) ==
    IF k = 0 THEN ""
    ELSE IF k = 1 THEN " " \o name
    ELSE " " \o name \o " " \o value \o Extra(k - 2)

InputLines ==
    {"", "  ", " phone  Dave ", "ADD Bob 0000000000", "Exit"}
    \cup {c \o ArgText(n, v, k) : c \in ArgCommands, n \in Names, v \in ArgValues, k \in 0..MaxArgs}
    \cup {c \o ArgText("Dave", "123", k) : c \in OtherCommands, k \in 0..1}

Parsed == [line \in InputLines |-> parse_input(line)]

\* the phones library calls add, and the values they edit a phone to
AddPhoneInputs == {"1234567890", "12345abcde"}
EditPhoneInputs == {"1234567890", "123"}

\* the birthdays library calls store, and the strings a Birthday is built from
AddBirthdayInputs == {"", "12.06.1990", "15.06.1985", "20.06.1970", "32.01.2000"}
BirthdayInputs ==
    {"", "12.06.1990", "15.03.1990", "1990-03-15", "32.01.2000", "1.1.2000", " 1.01.2000",
     "29.02.2000", "29.02.2001", "31.04.2000", "01.13.2000", "00.01.2000", "01.01.0000",
     "12.06.90", "12.06", "12.06.1990.1", "12/06/1990", "ab.cd.efgh"}

Date(y, m, d) == [year |-> y, month |-> m, day |-> d]
Todays == {Date(2024, 6, 10), Date(2024, 12, 30), Date(2023, 2, 27)}

-----------------------------------------------------------------------------
(* main() *)

Out(text) == [exc |-> NoExc, text |-> text, rows |-> <<>>]
Uncaught(exc) == [exc |-> exc, text |-> "", rows |-> <<>>]
NoCall == [op |-> "", args |-> <<>>, clock |-> None]

Init ==
    /\ records = <<>>
    /\ pc = "prompt"
    /\ user_input = ""
    /\ out = Out("Welcome to the assistant bot!")
    /\ call = NoCall

\* user_input = input("Enter a command: ")
Read(line) == pc = "prompt" /\ user_input' = line /\ UNCHANGED call

\* command, *args = parse_input(user_input), with the line parsed
Command(line, cmd) == Parsed[line].exc = NoExc /\ Parsed[line].cmd = cmd

\* print(handler(args, book)): an exception the decorator lets through ends main
PrintReturn(r) ==
    /\ records' = r.records
    /\ IF r.exc = NoExc THEN pc' = "prompt" /\ out' = Out(r.ret)
       ELSE pc' = "crashed" /\ out' = Uncaught(r.exc)

\* parse_input raises on a line with no word, outside any try
MainUnpackError ==
    \E line \in InputLines :
        /\ Read(line) /\ Parsed[line].exc # NoExc
        /\ pc' = "crashed" /\ out' = Uncaught(Parsed[line].exc)
        /\ UNCHANGED records

MainClose ==
    \E line \in InputLines :
        /\ Read(line) /\ (Command(line, "close") \/ Command(line, "exit"))
        /\ pc' = "done" /\ out' = Out("Good bye!")
        /\ UNCHANGED records

MainHello ==
    \E line \in InputLines :
        /\ Read(line) /\ Command(line, "hello")
        /\ pc' = "prompt" /\ out' = Out("How can I help you?")
        /\ UNCHANGED records

MainAdd ==
    \E line \in InputLines :
        Read(line) /\ Command(line, "add") /\ PrintReturn(add_contact(Parsed[line].args, records))

MainChange ==
    \E line \in InputLines :
        Read(line) /\ Command(line, "change") /\ PrintReturn(change_contact(Parsed[line].args, records))

MainPhone ==
    \E line \in InputLines :
        Read(line) /\ Command(line, "phone") /\ PrintReturn(show_phone(Parsed[line].args, records))

\* show_all(book.records): the dict is passed, and the value returned is not printed
MainAll ==
    \E line \in InputLines :
        /\ Read(line) /\ Command(line, "all")
        /\ LET r == show_all([type |-> "dict", items |-> records]) IN
           IF r.exc = NoExc
           THEN pc' = "prompt" /\ out' = [exc |-> NoExc, text |-> "", rows |-> r.printed]
           ELSE pc' = "crashed" /\ out' = Uncaught(r.exc)
        /\ UNCHANGED records

MainAddBirthday ==
    \E line \in InputLines :
        Read(line) /\ Command(line, "add-birthday")
            /\ PrintReturn(add_birthday(Parsed[line].args, records))

MainShowBirthday ==
    \E line \in InputLines :
        Read(line) /\ Command(line, "show-birthday")
            /\ PrintReturn(show_birthday(Parsed[line].args, records))

MainBirthdays ==
    \E line \in InputLines :
        /\ Read(line) /\ Command(line, "birthdays")
        /\ LET r == birthdays(records) IN
           IF r.exc = NoExc
           THEN pc' = "prompt" /\ out' = [exc |-> NoExc, text |-> "", rows |-> r.rows]
           ELSE pc' = "crashed" /\ out' = Uncaught(r.exc)
        /\ UNCHANGED records

KnownCommands ==
    {"close", "exit", "hello", "add", "change", "phone", "all", "add-birthday",
     "show-birthday", "birthdays"}

MainInvalid ==
    \E line \in InputLines :
        /\ Read(line) /\ Parsed[line].exc = NoExc /\ Parsed[line].cmd \notin KnownCommands
        /\ pc' = "prompt" /\ out' = Out("Invalid command.")
        /\ UNCHANGED records

Next ==
    \/ MainUnpackError
    \/ MainClose
    \/ MainHello
    \/ MainAdd
    \/ MainChange
    \/ MainPhone
    \/ MainAll
    \/ MainAddBirthday
    \/ MainShowBirthday
    \/ MainBirthdays
    \/ MainInvalid

Spec == Init /\ [][Next]_vars

-----------------------------------------------------------------------------
(* The library, called directly: Record methods are called on the records  *)
(* of the book (book.find(name).method(...)), add_record with a new        *)
(* Record(name).                                                           *)

ApiInit ==
    /\ records = <<>>
    /\ pc = "prompt"
    /\ user_input = ""
    /\ out = Out("")
    /\ call = NoCall

Api(op, args) ==
    /\ call' = [op |-> op, args |-> args, clock |-> None]
    /\ UNCHANGED <<pc, user_input>>

Result(exc, text) == [exc |-> exc, text |-> text, rows |-> <<>>]

PhoneArgs == AddPhoneInputs \cup EditPhoneInputs

ApiAddRecord ==
    \E name \in Names :
        /\ Api("AddressBook.add_record", <<name>>)
        /\ records' = add_record(records, Record(name, FreshId(records)))
        /\ out' = Result(NoExc, "")

ApiDelete ==
    \E name \in Names :
        /\ Api("AddressBook.delete", <<name>>)
        /\ records' = delete(records, name).records
        /\ out' = Result(delete(records, name).exc, "")

ApiAddPhone ==
    \E name \in Keys(records), phone \in AddPhoneInputs :
        /\ Len(find(records, name).rec.phones) < MaxPhones
        /\ Api("Record.add_phone", <<name, phone>>)
        /\ LET r == Record_add_phone(find(records, name).rec, phone) IN
             /\ records' = SetRecord(records, name, r.rec)
             /\ out' = Result(r.exc, r.msg)

ApiRemovePhone ==
    \E name \in Keys(records), phone \in PhoneArgs :
        /\ Api("Record.remove_phone", <<name, phone>>)
        /\ LET r == Record_remove_phone(find(records, name).rec, phone) IN
             /\ records' = SetRecord(records, name, r.rec)
             /\ out' = Result(r.exc, r.msg)

ApiEditPhone ==
    \E name \in Keys(records), old_phone \in PhoneArgs, new_phone \in EditPhoneInputs :
        /\ Api("Record.edit_phone", <<name, old_phone, new_phone>>)
        /\ LET r == Record_edit_phone(find(records, name).rec, old_phone, new_phone) IN
             /\ records' = SetRecord(records, name, r.rec)
             /\ out' = Result(r.exc, r.msg)

ApiRecordAddBirthday ==
    \E name \in Keys(records), birthday \in AddBirthdayInputs :
        /\ Api("Record.add_birthday", <<name, birthday>>)
        /\ LET r == Record_add_birthday(find(records, name).rec, birthday) IN
             /\ records' = SetRecord(records, name, r.rec)
             /\ out' = Result(r.exc, r.msg)

ApiBookAddBirthday ==
    \E name \in Names, birthday \in AddBirthdayInputs :
        /\ Api("AddressBook.add_birthday", <<name, birthday>>)
        /\ LET r == AddressBook_add_birthday(records, name, birthday) IN
             /\ records' = r.records
             /\ out' = Result(r.exc, r.msg)

ApiGetBirthdays ==
    \E day \in Todays :
        /\ call' = [op |-> "AddressBook.get_birthdays_per_week", args |-> <<>>, clock |-> day]
        /\ LET r == get_birthdays_per_week(records, day) IN
             out' = [exc |-> r.exc, text |-> "", rows |-> r.rows]
        /\ UNCHANGED <<records, pc, user_input>>

\* add_birthday called as a function, outside main's loop
ApiAddBirthdayCommand ==
    \E name \in Names, birthday \in AddBirthdayInputs :
        /\ Api("add_birthday", <<name, birthday>>)
        /\ LET r == add_birthday(<<name, birthday>>, records) IN
             /\ records' = r.records
             /\ out' = Result(r.exc, r.ret)

ApiBirthday ==
    \E raw \in BirthdayInputs :
        /\ Api("Birthday", <<raw>>)
        /\ out' = Result(Birthday(raw).exc, Birthday(raw).value)
        /\ UNCHANGED records

\* add_contact and change_contact called as functions, outside main's loop
ApiAddContact ==
    \E name \in Names, phone \in AddPhoneInputs :
        /\ Api("add_contact", <<name, phone>>)
        /\ LET r == add_contact(<<name, phone>>, records) IN
             /\ records' = r.records
             /\ out' = Result(r.exc, r.ret)

ApiChangeContact ==
    \E name \in Names, new_phone \in EditPhoneInputs :
        /\ Api("change_contact", <<name, new_phone>>)
        /\ LET r == change_contact(<<name, new_phone>>, records) IN
             /\ records' = r.records
             /\ out' = Result(r.exc, r.ret)

\* the calls that build the book and set and read birthdays
ApiNext ==
    \/ ApiAddRecord
    \/ ApiDelete
    \/ ApiRecordAddBirthday
    \/ ApiBookAddBirthday
    \/ ApiAddBirthdayCommand
    \/ ApiGetBirthdays
    \/ ApiBirthday

ApiSpec == ApiInit /\ [][ApiNext]_vars

\* the calls that change the phone lists
PhoneNext ==
    \/ ApiAddRecord
    \/ ApiAddPhone
    \/ ApiRemovePhone
    \/ ApiEditPhone
    \/ ApiAddContact
    \/ ApiChangeContact

PhoneSpec == ApiInit /\ [][PhoneNext]_vars

-----------------------------------------------------------------------------
(* The properties *)

\* the command line read last, parsed
LastCommand == Parsed[user_input]

\* the line read by the step, parsed
NextCommand == Parsed[user_input']

PhonesOf(recs, name) == recs[IndexOf(recs, name)].rec.phones
BirthdayOf(recs, name) == recs[IndexOf(recs, name)].rec.birthday

FormatErrorText == "Give me name and phone please."
NotFoundText == "Contact not found"
InvalidCommandText == "Invalid command. Please enter a valid command."

\* a string of exactly ten decimal digits
TenDigits(s) == Len(s) = 10 /\ \A k \in 1..10 : Ch(s, k) \in AsciiDigits

\* C1: every phone stored in every record is exactly 10 characters long, all
\* of them digits, whatever add_phone, edit_phone, remove_phone, add_contact
\* and change_contact calls were made.
C1_StoredPhonesAreTenDigits ==
    \A i \in 1..Len(records) :
        \A j \in 1..Len(records[i].rec.phones) : TenDigits(records[i].rec.phones[j])

\* C2: nothing is fatal: after every line that holds a command, recognized or
\* not, main is at its prompt again, and it has ended only if the command was
\* close or exit.
C2_OnlyCloseOrExitEndsTheLoop ==
    LastCommand.exc = NoExc =>
        \/ pc = "prompt"
        \/ pc = "done" /\ LastCommand.cmd \in {"close", "exit"}

\* C3: a birthday is set at most once.  In every step, a Record that has a
\* birthday keeps it for as long as the Record is in the book, and a call
\* that adds a birthday to it fails (Record.add_birthday and
\* AddressBook.add_birthday raise the ValueError "Birthday already exists for
\* this contact", which the add_birthday function turns into its failure text)
\* and changes nothing.
C3_BirthdaySetAtMostOnce ==
    [][\A i \in 1..Len(records) :
          records[i].rec.birthday # None =>
            /\ \A j \in 1..Len(records') :
                  records'[j].rec.id = records[i].rec.id
                    => records'[j].rec.birthday = records[i].rec.birthday
            /\ (/\ call'.op \in {"Record.add_birthday", "AddressBook.add_birthday"}
                /\ call'.args[1] = records[i].key)
                  => /\ out'.exc = "ValueError"
                     /\ out'.text = "Birthday already exists for this contact"
                     /\ records' = records
            /\ (call'.op = "add_birthday" /\ call'.args[1] = records[i].key)
                  => /\ out'.text = "Invalid birthday format"
                     /\ records' = records
      ]_vars

\* C3 witness: Record.add_birthday was called with a valid date on a Record that
\* has another birthday, and failed.
C3_Witness ==
    /\ call.op = "Record.add_birthday"
    /\ call.args[1] \in Keys(records)
    /\ is_valid_birthday(call.args[2])
    /\ BirthdayOf(records, call.args[1]) # None
    /\ BirthdayOf(records, call.args[1]) # <<call.args[2]>>
    /\ out.text = "Birthday already exists for this contact"

\* C4: an add command whose name is already in the book prints the format
\* error message and leaves the book, the record of that name included, as it was.
C4_DuplicateAddIsRejected ==
    [][(/\ NextCommand.exc = NoExc
        /\ NextCommand.cmd = "add"
        /\ Len(NextCommand.args) = 2
        /\ NextCommand.args[1] \in Keys(records))
          => (out'.text = FormatErrorText /\ records' = records)
      ]_vars

\* C4 witness: add was given a name of the book and a valid phone that is not the
\* phone the record has, and printed the format error message.
C4_Witness ==
    /\ LastCommand.exc = NoExc
    /\ LastCommand.cmd = "add"
    /\ Len(LastCommand.args) = 2
    /\ LastCommand.args[1] \in Keys(records)
    /\ is_valid_phone(LastCommand.args[2])
    /\ PhonesOf(records, LastCommand.args[1]) # <<LastCommand.args[2]>>
    /\ out.text = FormatErrorText

\* C5: change, phone, add-birthday and show-birthday, given their arguments
\* and a name that is not in the book, print "Contact not found".
C5_LookupMissPrintsContactNotFound ==
    [][(/\ NextCommand.exc = NoExc
        /\ \/ NextCommand.cmd \in {"change", "add-birthday"} /\ Len(NextCommand.args) = 2
           \/ NextCommand.cmd \in {"phone", "show-birthday"} /\ Len(NextCommand.args) >= 1
        /\ NextCommand.args[1] \notin Keys(records))
          => out'.text = NotFoundText
      ]_vars

-----------------------------------------------------------------------------
(* The calendar, for what the birthday report is to return *)

RECURSIVE DaysBeforeMonth(_, _)
DaysBeforeMonth(y, m) == IF m <= 1 THEN 0 ELSE DaysBeforeMonth(y, m - 1) + DaysInMonth(y, m - 1)

\* the number of the day, 1 for the first of January of the year 1
Ordinal(d) ==
    LET y == d.year - 1 IN
    y * 365 + (y \div 4) - (y \div 100) + (y \div 400) + DaysBeforeMonth(d.year, d.month) + d.day

DayNames == <<"Monday", "Tuesday", "Wednesday", "Thursday", "Friday", "Saturday", "Sunday">>

WeekdayName(d) == DayNames[((Ordinal(d) + 6) % 7) + 1]

\* the date a stored birthday string names
BirthDate(s) ==
    LET f == DateFields(s) IN Date(ToInt(f.y), ToInt(f.m), ToInt(f.d))

\* this year's occurrence of the birthday, or next year's if this year's is before day
NextOccurrence(b, day) ==
    IF Ordinal(Date(day.year, b.month, b.day)) < Ordinal(day)
    THEN Date(day.year + 1, b.month, b.day)
    ELSE Date(day.year, b.month, b.day)

ReportedDay(d) == IF WeekdayName(d) \in {"Saturday", "Sunday"} THEN "Monday" ELSE WeekdayName(d)

RECURSIVE ExpectedUpcoming(_, _)
ExpectedUpcoming(recs, day) ==
    IF Len(recs) = 0 THEN <<>>
    ELSE LET r == recs[1].rec
             on == NextOccurrence(BirthDate(r.birthday[1]), day)
         IN  (IF /\ r.birthday # None
                 /\ strptime_ok(r.birthday[1])
                 /\ Ordinal(on) - Ordinal(day) \in 0..7
              THEN <<(<<ReportedDay(on), r.name>>)>>
              ELSE <<>>) \o ExpectedUpcoming(Tail(recs), day)

\* a string DD.MM.YYYY: two digits, a dot, two digits, a dot, four digits, that
\* name a day the calendar has
IsDDMMYYYY(s) ==
    /\ Len(s) = 10
    /\ \A k \in {1, 2, 4, 5, 7, 8, 9, 10} : Ch(s, k) \in AsciiDigits
    /\ Ch(s, 3) = "." /\ Ch(s, 6) = "."
    /\ LET d == ToInt(SubSeq(s, 1, 2))
           m == ToInt(SubSeq(s, 4, 5))
           y == ToInt(SubSeq(s, 7, 10))
       IN  y >= 1 /\ m \in 1..12 /\ d >= 1 /\ d <= DaysInMonth(y, m)

\* C6: get_birthdays_per_week returns, in the order of the records, one
\* (weekday, name) pair for each record whose birthday next falls 0 to 7 days
\* from today, Saturday and Sunday reported as Monday, and nothing else.
\* Stated for the books whose birthdays are all dates.
C6_UpcomingBirthdaysReport ==
    (/\ call.op = "AddressBook.get_birthdays_per_week"
     /\ \A i \in 1..Len(records) :
           records[i].rec.birthday # None => IsDDMMYYYY(records[i].rec.birthday[1]))
        => (out.exc = NoExc /\ out.rows = ExpectedUpcoming(records, call.clock))

\* C7: Birthday(raw) succeeds exactly for the strings DD.MM.YYYY that name a
\* day of the calendar, and so the birthday of a record, when set, is such a string.
C7_BirthdayAcceptsExactlyValidDates ==
    /\ call.op = "Birthday" => (out.exc = NoExc <=> IsDDMMYYYY(call.args[1]))
    /\ \A i \in 1..Len(records) :
          records[i].rec.birthday # None => IsDDMMYYYY(records[i].rec.birthday[1])

\* the add or change command of the step succeeded for this name
Supplied(name) ==
    /\ NextCommand.exc = NoExc
    /\ NextCommand.cmd \in {"add", "change"}
    /\ Len(NextCommand.args) = 2
    /\ NextCommand.args[1] = name
    /\ out'.text \in {"Contact added", "Contact updated"}

\* C8: the phone command prints the phone the last successful add or change
\* of that name supplied.  Step by step: a successful add or change makes its
\* phone the first phone of the name, every other step leaves the first phone of
\* a name of the book as it is, and phone prints the first phone.
C8_PhonePrintsLastSuppliedPhone ==
    [][\A name \in Names :
        /\ Supplied(name)
             => (name \in Keys(records') /\ PhonesOf(records', name)[1] = NextCommand.args[2])
        /\ (~Supplied(name) /\ name \in Keys(records))
             => (name \in Keys(records') /\ PhonesOf(records', name)[1] = PhonesOf(records, name)[1])
        /\ (/\ NextCommand.exc = NoExc
            /\ NextCommand.cmd = "phone"
            /\ Len(NextCommand.args) >= 1
            /\ NextCommand.args[1] = name
            /\ name \in Keys(records))
             => out'.text = PhonesOf(records, name)[1]
      ]_vars

\* C8 witness: phone printed "123" for a name of the book, a value only a change
\* command can have supplied.
C8_Witness ==
    /\ LastCommand.exc = NoExc
    /\ LastCommand.cmd = "phone"
    /\ Len(LastCommand.args) >= 1
    /\ LastCommand.args[1] \in Keys(records)
    /\ out.text = "123"

ErrorTexts ==
    {FormatErrorText, NotFoundText, InvalidCommandText, "Invalid birthday format"}
    \cup {"Contact '" \o n \o "' not found" : n \in Names}

\* C9: a command that prints an error message leaves the book as it was, and
\* no step leaves a record with no phone in the book.
C9_FailedCommandLeavesTheBook ==
    [][/\ out'.text \in ErrorTexts => records' = records
       /\ \A i \in 1..Len(records') : Len(records'[i].rec.phones) >= 1
      ]_vars

\* C9 witness: add was given a new name and an invalid phone, printed the format
\* error message, and the name is not in the book.
C9_Witness ==
    /\ LastCommand.exc = NoExc
    /\ LastCommand.cmd = "add"
    /\ Len(LastCommand.args) = 2
    /\ LastCommand.args[1] \notin Keys(records)
    /\ ~is_valid_phone(LastCommand.args[2])
    /\ out.text = FormatErrorText
    /\ Len(records) >= 1

\* C10: every record of the book has exactly one phone and is stored under
\* its own name, and change and phone never fail with the IndexError message
\* unless no name was typed.
C10_OnePhoneUnderOwnName ==
    /\ \A i \in 1..Len(records) :
          Len(records[i].rec.phones) = 1 /\ records[i].key = records[i].rec.name
    /\ (/\ LastCommand.exc = NoExc
        /\ LastCommand.cmd \in {"change", "phone"}
        /\ out.text = InvalidCommandText)
          => Len(LastCommand.args) = 0

\* C10 witness: two contacts are in the book and a change command has just
\* updated one of them.
C10_Witness ==
    /\ Len(records) = 2
    /\ LastCommand.exc = NoExc
    /\ LastCommand.cmd = "change"
    /\ out.text = "Contact updated"

====
